---- MODULE Spec2Model ----
(***************************************************************************)
(* State-machine model of the Deep Research Agents HTTP backend            *)
(* (src/deep-research-ui/backend/main.py, models.py) and of the command    *)
(* line orchestrator (src/main.py).                                        *)
(*                                                                         *)
(* Every route handler is one atomic action.  What the external managers   *)
(* (SearchManager, MemoryManager, CitationManager) answer is an input of   *)
(* the action: each manager call either returns one of a small set of      *)
(* values or raises.  The variables request, response and calls record     *)
(* the last request served, the HTTP response it got and the manager       *)
(* calls the handler made for it.                                          *)
(*                                                                         *)
(* Four specifications share the variables:                               *)
(*   Spec         the backend serving one request after the other;         *)
(*   SpecHistory  the response-time wrapper under concurrent tracked       *)
(*                calls, far enough for the history to fill up, and the    *)
(*                statistics read from that history;                       *)
(*   SpecCLI      DeepResearchAgent driven by main() or by a caller of     *)
(*                its methods;                                             *)
(*   SpecCitations  a citation created and then read and listed.           *)
(***************************************************************************)
EXTENDS Integers, Sequences, FiniteSets, TLC

VARIABLES
    search_manager,         \* main.py:112  None or the SearchManager
    memory_manager,         \* main.py:113  None or the MemoryManager
    citation_manager,       \* main.py:114  None or the CitationManager
    agents,                 \* main.py:115  None or the dict of agents (its keys, in order)
    memory_plugin,          \* main.py:116  None or the MemoryPlugin
    response_time_history,  \* main.py:119  list of durations
    startup,                \* progress of startup_event: "pending", "complete", "failed"
    request,                \* the last request served
    response,               \* the response it was answered with
    calls,                  \* the manager calls made while serving it
    in_flight,              \* tracked calls whose handler has been called and not finished
    completed_durations,    \* history variable: the durations of all completed tracked calls
    memory_store,           \* the ids of the entries the MemoryManager holds
    created_task_ids,       \* history variable: the ids create_research_task handed out
    created_citations,      \* history variable: what create_citation answered with 200
    caller,                 \* who drives DeepResearchAgent: "main" (main()) or "direct"
    pc,                     \* src/main.py: the statement the orchestrator is at
    orchestration,          \* src/main.py:100  self.orchestration
    runtime,                \* src/main.py:101  self.runtime
    sk_memory_plugin,       \* src/main.py:102  self.sk_memory_plugin
    shared_memory_plugin,   \* src/main.py:103  self.shared_memory_plugin
    external_calls,         \* the external calls the orchestrator made, in order
    raised_error,           \* the exception the last method call of the orchestrator raised
    method_calls            \* history variable: method calls the direct caller made

cli == <<caller, pc, orchestration, runtime, sk_memory_plugin, shared_memory_plugin,
         external_calls, raised_error, method_calls>>

vars == <<search_manager, memory_manager, citation_manager, agents, memory_plugin,
          response_time_history, startup, request, response, calls,
          in_flight, completed_durations, memory_store, created_task_ids,
          created_citations, cli>>

globals == <<search_manager, memory_manager, citation_manager, agents, memory_plugin, startup>>

\* What a request handler never touches.
untouched == <<globals, in_flight, created_citations, cli>>

(***************************************************************************)
(* Bounds of the model.                                                    *)
(***************************************************************************)
MaxAgents == 2          \* agent ids are 1..MaxAgents; MaxAgents + 1 is an unknown id
MaxPage == 3            \* page numbers tried: 0..MaxPage
MaxPageSize == 2        \* page sizes tried: 0..MaxPageSize, 100 and 101
MaxTracked == 2         \* tracked requests served (length of the history reached)
MaxProviderResults == 2 \* results one search provider returns
MaxCitations == 2       \* citations the citation manager lists
MaxMemoryResults == 2   \* entries the memory manager returns for a search
MaxMethodCalls == 2     \* methods of DeepResearchAgent a direct caller calls
MaxInFlight == 2        \* tracked calls running at the same time
MaxCompleted == 103     \* tracked calls started in all
WarmUp == 98            \* tracked calls whose durations are fixed

(***************************************************************************)
(* Program constants.                                                      *)
(***************************************************************************)
MAX_HISTORY_SIZE == 100

None == "None"

Min(a, b) == IF a < b THEN a ELSE b
Max(a, b) == IF a < b THEN b ELSE a

\* Python's s[start:end] for 0 <= start, 0 <= end (0-based, end exclusive, clamped).
Slice(s, start, end) == SubSeq(s, start + 1, Min(end, Len(s)))

\* The global agents: None, or a dict whose keys are kept in insertion order.
NoAgents == [is_none |-> TRUE, keys |-> <<>>]
AgentDict(k) == [is_none |-> FALSE, keys |-> [i \in 1..k |-> i]]

\* Python truthiness of the global agents: None and the empty dict are falsy.
AgentsFalsy == agents.is_none \/ agents.keys = <<>>

AgentKeys == {agents.keys[i] : i \in 1..Len(agents.keys)}

Durations == {10, 20}

(***************************************************************************)
(* Outcomes of a handler and the responses the application makes of them.  *)
(***************************************************************************)
Return(body) == [kind |-> "return", body |-> body]
HTTPException(status_code, detail) ==
    [kind |-> "HTTPException", status_code |-> status_code, detail |-> detail]
UnhandledException == [kind |-> "Exception"]
RequestValidationError == [kind |-> "RequestValidationError"]
\* A WebSocket handshake is accepted by a WebSocket route, and closed by the router
\* when no route matches.
WebSocketAccept == [kind |-> "WebSocketAccept"]
WebSocketClose == [kind |-> "WebSocketClose"]

Result(outcome, made) == [outcome |-> outcome, calls |-> made]

\* main.py:867-875
not_found_handler ==
    [status_code |-> 404,
     body |-> [success |-> FALSE,
               error |-> [message |-> "Resource not found", code |-> "NOT_FOUND"]]]

\* main.py:878-886
internal_server_error_handler ==
    [status_code |-> 500,
     body |-> [success |-> FALSE,
               error |-> [message |-> "Internal server error", code |-> "INTERNAL_ERROR"]]]

\* Mutant: the handler for 404 is not registered.
no_status_handlers == {}

\* The status codes with a handler registered by @app.exception_handler(<int>) that
\* serves raised HTTPExceptions; the handler registered for 500 serves the exceptions
\* no other handler takes.
status_handlers == {404}

\* The response to a handler's outcome.  An HTTPException whose status code has a
\* registered handler is answered by that handler, whatever its detail; any other
\* HTTPException is answered with its status code and {"detail": detail}.
Respond(outcome) ==
    CASE outcome.kind = "return" ->
            [status_code |-> 200, body |-> outcome.body]
      [] outcome.kind = "HTTPException" ->
            IF outcome.status_code \in status_handlers
            THEN not_found_handler
            ELSE [status_code |-> outcome.status_code, body |-> [detail |-> outcome.detail]]
      [] outcome.kind = "RequestValidationError" ->
            [status_code |-> 422, body |-> [detail |-> "validation error"]]
      [] outcome.kind = "Exception" ->
            internal_server_error_handler
      [] outcome.kind = "WebSocketAccept" ->
            [status_code |-> 101, body |-> [detail |-> "websocket accepted"]]
      [] outcome.kind = "WebSocketClose" ->
            [status_code |-> 403, body |-> [detail |-> "websocket closed"]]

(***************************************************************************)
(* Response-time tracking (main.py:123-153).                               *)
(***************************************************************************)
\* Mutant: the history is appended to and never trimmed.
track_response_time_unbounded(history, response_time) == Append(history, response_time)

\* Recording one duration (main.py:132-134, and again 140-142): append, then drop
\* the oldest entry when the list has grown beyond MAX_HISTORY_SIZE.  No await
\* stands between the append and the pop.
track_response_time(history, response_time) ==
    LET appended == Append(history, response_time)
    IN  IF Len(appended) > MAX_HISTORY_SIZE THEN Tail(appended) ELSE appended

\* Mutant: only a handler that returns is recorded.
wrapper_return_only(history, func_outcome, response_time) ==
    IF func_outcome.kind = "return"
    THEN [history |-> track_response_time(history, response_time), outcome |-> func_outcome]
    ELSE [history |-> history, outcome |-> func_outcome]

\* The decorator's wrapper (main.py:125-143) once func has finished with
\* func_outcome after response_time: the try branch records the duration and
\* returns func's result, the except branch records it and re-raises the exception.
wrapper(history, func_outcome, response_time) ==
    IF func_outcome.kind = "return"
    THEN [history |-> track_response_time(history, response_time), outcome |-> func_outcome]
    ELSE [history |-> track_response_time(history, response_time), outcome |-> func_outcome]

(***************************************************************************)
(* Query-parameter validation shared by the paginated routes.              *)
(***************************************************************************)
ValidPagination(page, page_size) == page >= 1 /\ page_size >= 1 /\ page_size <= 100

\* Mutant: the number of pages rounded down.
total_pages_floor(total, page_size) == total \div page_size

total_pages(total, page_size) == (total + page_size - 1) \div page_size

Pages == 0..MaxPage
PageSizes == (0..MaxPageSize) \cup {100, 101}

RECURSIVE SumSeq(_)
SumSeq(s) == IF s = <<>> THEN 0 ELSE Head(s) + SumSeq(Tail(s))

NoResponse == [status_code |-> 0, body |-> [detail |-> ""]]

\* No request is being served.
Idle == request.endpoint = "none"

(***************************************************************************)
(* Initial state: the module's globals right after import.                 *)
(***************************************************************************)
\* The orchestrator is at statement `step` of `at`; final_report is the report
\* research has obtained, "" before.
At(at, step) == [at |-> at, step |-> step, final_report |-> ""]

\* DeepResearchAgent.__init__ (src/main.py:92-103), nothing called yet.
InitAgent ==
    /\ orchestration = None
    /\ runtime = None
    /\ sk_memory_plugin = None
    /\ shared_memory_plugin = None
    /\ external_calls = <<>>
    /\ raised_error = None
    /\ method_calls = 0

InitBackend ==
    /\ search_manager = None
    /\ memory_manager = None
    /\ citation_manager = None
    /\ agents = NoAgents
    /\ memory_plugin = None
    /\ response_time_history = <<>>
    /\ startup = "pending"
    /\ request = [endpoint |-> "none"]
    /\ response = NoResponse
    /\ calls = <<>>
    /\ in_flight = 0
    /\ completed_durations = <<>>
    /\ memory_store = {}
    /\ created_task_ids = {}
    /\ created_citations = {}

Init ==
    /\ InitBackend
    /\ InitAgent
    /\ caller = "main"
    /\ pc = At("main", 1)

(***************************************************************************)
(* startup_event (main.py:157-189).  The steps run in order; a step that   *)
(* raises leaves the globals assigned so far and re-raises.                *)
(*   1 get_config/validate  2 SearchManager  3 MemoryManager               *)
(*   4 CitationManager  5 MemoryPlugin  6 create_agents_with_memory        *)
(*   7 get_available_providers.  fail_at = 0: no step raises.              *)
(***************************************************************************)
Reached(fail_at, step) == fail_at = 0 \/ fail_at > step

startup_event ==
    /\ startup = "pending"
    /\ Idle
    /\ \E fail_at \in 0..7, k \in 0..MaxAgents :
        /\ search_manager' = IF Reached(fail_at, 2) THEN "SearchManager" ELSE search_manager
        /\ memory_manager' = IF Reached(fail_at, 3) THEN "MemoryManager" ELSE memory_manager
        /\ citation_manager' = IF Reached(fail_at, 4) THEN "CitationManager" ELSE citation_manager
        /\ memory_plugin' = IF Reached(fail_at, 5) THEN "MemoryPlugin" ELSE memory_plugin
        /\ agents' = IF Reached(fail_at, 6) THEN AgentDict(k) ELSE agents
        /\ startup' = IF fail_at = 0 THEN "complete" ELSE "failed"
    /\ UNCHANGED <<response_time_history, request, response, calls, in_flight,
                   completed_durations, memory_store, created_task_ids,
                   created_citations, cli>>

(***************************************************************************)
(* Serving a request.                                                      *)
(***************************************************************************)
\* The request is answered with the handler's outcome.
Answer(req, result) ==
    /\ request' = req
    /\ response' = Respond(result.outcome)
    /\ calls' = result.calls
    /\ UNCHANGED <<response_time_history, completed_durations>>
    /\ UNCHANGED untouched

\* A route without the track_response_time decorator whose manager calls leave
\* the memory store as it is.
Serve(req, result) ==
    /\ Answer(req, result)
    /\ UNCHANGED <<memory_store, created_task_ids>>

\* A route decorated with track_response_time, the handler running from its call
\* to its end in one step.  Request validation happens before the decorated
\* function is called, so a rejected request is not tracked.
ServeTracked(req, result, response_time) ==
    LET tracked == result.outcome.kind # "RequestValidationError"
        finished == wrapper(response_time_history, result.outcome, response_time)
    IN  /\ request' = req
        /\ response' = Respond(IF tracked THEN finished.outcome ELSE result.outcome)
        /\ calls' = result.calls
        /\ response_time_history' =
                IF tracked THEN finished.history ELSE response_time_history
        /\ completed_durations' =
                IF tracked THEN Append(completed_durations, response_time)
                ELSE completed_durations
        /\ UNCHANGED <<memory_store, created_task_ids>>
        /\ UNCHANGED untouched

(***************************************************************************)
(* Agent endpoints (main.py:219-343).                                      *)
(***************************************************************************)
\* AgentInfo built for a registered agent (main.py:244-251): status is always "idle".
AgentInfo(agent_id) == [id |-> agent_id, status |-> "idle"]

StatusFilters == {None, "idle", "running"}

list_agents(page, page_size, status) ==
    IF ~ValidPagination(page, page_size) THEN Result(RequestValidationError, <<>>)
    ELSE IF AgentsFalsy THEN Result(HTTPException(503, "Agents not initialized"), <<>>)
    ELSE
        LET infos == [i \in 1..Len(agents.keys) |-> AgentInfo(agents.keys[i])]
            agent_list == SelectSeq(infos, LAMBDA a : status = None \/ a.status = status)
            total == Len(agent_list)
            start == (page - 1) * page_size
            end == start + page_size
        IN  Result(Return([agents |-> Slice(agent_list, start, end),
                           total |-> total,
                           page |-> page,
                           page_size |-> page_size,
                           total_pages |-> total_pages(total, page_size),
                           has_next |-> end < total,
                           has_prev |-> start > 0]), <<>>)

ListAgents ==
    /\ Idle
    /\ Len(response_time_history) < MaxTracked
    /\ \E page \in Pages, page_size \in PageSizes, status \in StatusFilters, d \in Durations :
        ServeTracked([endpoint |-> "list_agents", page |-> page, page_size |-> page_size,
                      status |-> status],
                     list_agents(page, page_size, status), d)

\* Mutant: the mean is taken over the whole history.
get_average_response_time_all ==
    IF response_time_history = <<>> THEN 25000
    ELSE LET m == Len(response_time_history)
             q == (100 * SumSeq(response_time_history)) \div m
             r == (100 * SumSeq(response_time_history)) % m
         IN  IF 2 * r > m THEN q + 1
             ELSE IF 2 * r = m THEN q + (q % 2)
             ELSE q

\* main.py:146-153, in hundredths of a millisecond: round(mean, 2) of the last 20
\* entries (a tie rounds to the even hundredth), or the fallback 250.0 when there is
\* no history.
get_average_response_time ==
    IF response_time_history = <<>> THEN 25000
    ELSE LET n == Len(response_time_history)
             recent_responses == SubSeq(response_time_history, Max(1, n - 19), n)
             m == Len(recent_responses)
             q == (100 * SumSeq(recent_responses)) \div m
             r == (100 * SumSeq(recent_responses)) % m
         IN  IF 2 * r > m THEN q + 1
             ELSE IF 2 * r = m THEN q + (q % 2)
             ELSE q

\* main.py:273-326.  active is the number of agents whose status attribute is
\* "running"; psutil_raises: the psutil import or call raises, which the handler's
\* except branch turns into the fallback statistics.
get_agent_stats(active, psutil_raises) ==
    IF AgentsFalsy
    THEN Result(Return([total_agents |-> 0, active_agents |-> 0, completed_tasks |-> 0,
                        failed_tasks |-> 0, average_response_time |-> 0,
                        uptime_percent |-> 100]), <<>>)
    ELSE IF ~psutil_raises
    THEN Result(Return([total_agents |-> Len(agents.keys),
                        active_agents |-> active,
                        completed_tasks |-> Len(response_time_history),
                        failed_tasks |-> 0,
                        average_response_time |-> get_average_response_time,
                        uptime_percent |-> 100]), <<>>)
    ELSE Result(Return([total_agents |-> IF AgentsFalsy THEN 0 ELSE Len(agents.keys),
                        active_agents |-> 0,
                        completed_tasks |-> Len(response_time_history),
                        failed_tasks |-> 0,
                        average_response_time |-> get_average_response_time,
                        uptime_percent |-> 100]), <<>>)

GetAgentStats ==
    /\ Idle
    /\ Len(response_time_history) < MaxTracked
    /\ \E active \in 0..Len(agents.keys), psutil_raises \in BOOLEAN, d \in Durations :
        ServeTracked([endpoint |-> "get_agent_stats"],
                     get_agent_stats(active, psutil_raises), d)

\* main.py:329-343
get_agent(agent_id) ==
    IF AgentsFalsy \/ agent_id \notin AgentKeys
    THEN Result(HTTPException(404, "Agent not found"), <<>>)
    ELSE Result(Return(AgentInfo(agent_id)), <<>>)

\* Mutant: get_agent carries the @track_response_time decorator as well.
GetAgentTracked ==
    /\ Idle
    /\ Len(response_time_history) < MaxTracked
    /\ \E agent_id \in 1..(MaxAgents + 1), d \in Durations :
        ServeTracked([endpoint |-> "get_agent", agent_id |-> agent_id],
                     get_agent(agent_id), d)

GetAgent ==
    /\ Idle
    /\ \E agent_id \in 1..(MaxAgents + 1) :
        Serve([endpoint |-> "get_agent", agent_id |-> agent_id], get_agent(agent_id))

(***************************************************************************)
(* Calls to the external managers.  What a call answers is an input: it    *)
(* returns a value or raises.                                              *)
(***************************************************************************)
Ok(value) == [raised |-> FALSE, value |-> value]
Raised == [raised |-> TRUE]

Call(target, method, args, answer) ==
    [target |-> target, method |-> method, args |-> args, raised |-> answer.raised]

(***************************************************************************)
(* Search endpoints (main.py:346-464, models.py:115-123).                  *)
(***************************************************************************)
\* Query texts, told apart by their length only.
Queries == {"", "q", "q1000", "q1001"}
QueryLen(q) == CASE q = "" -> 0 [] q = "q" -> 1 [] q = "q1000" -> 1000 [] q = "q1001" -> 1001

SearchProviders == {"azure", "tavily", "internal"}

\* Mutant: max_results without its upper limit.
ValidSearchQueryNoLimit(q) ==
    /\ QueryLen(q.query) >= 1
    /\ QueryLen(q.query) <= 1000
    /\ q.max_results >= 1
    /\ q.provider \in {"azure", "tavily", "internal", None}

\* SearchQuery's field constraints (models.py:117-120).
ValidSearchQuery(q) ==
    /\ QueryLen(q.query) >= 1
    /\ QueryLen(q.query) <= 1000
    /\ q.max_results >= 1
    /\ q.max_results <= 100
    /\ q.provider \in SearchProviders \cup {None}

SearchQueries ==
    [query : Queries, max_results : {0, 1, 2, 100, 101},
     provider : {None, "tavily"}, document_type : {None}]

\* What search_multi_provider returns: provider -> list of results, as a sequence of
\* [provider, n] in the dict's order, n the number of results of that provider.
ProviderResults ==
    LET N == 0..MaxProviderResults
    IN  {<<>>}
        \cup {<<[provider |-> p, n |-> n]>> : p \in {"azure", "tavily"}, n \in N}
        \cup {<<[provider |-> "azure", n |-> n], [provider |-> "tavily", n |-> m]>> :
                n \in N, m \in N}

\* main.py:393-406, the inner loop from index idx on: a result is kept when
\* idx < max_results, and total_results counts the results kept.
RECURSIVE CollectProvider(_, _, _, _, _)
CollectProvider(provider, n, idx, max_results, acc) ==
    IF idx >= n THEN acc
    ELSE CollectProvider(provider, n, idx + 1, max_results,
            IF idx < max_results
            THEN [search_results |->
                      Append(acc.search_results,
                             [id |-> <<provider, idx>>, source |-> provider]),
                  total_results |-> acc.total_results + 1]
            ELSE acc)

\* main.py:392-406, the outer loop over the providers from position i on.
RECURSIVE CollectResults(_, _, _, _)
CollectResults(results, i, max_results, acc) ==
    IF i > Len(results) THEN acc
    ELSE CollectResults(results, i + 1, max_results,
            CollectProvider(results[i].provider, results[i].n, 0, max_results, acc))

\* main.py:347-420
search_documents(search_request, searched) ==
    IF ~ValidSearchQuery(search_request) THEN Result(RequestValidationError, <<>>)
    ELSE IF search_manager = None
    THEN Result(HTTPException(503, "Search service not available"), <<>>)
    ELSE
        LET made == <<Call("search_manager", "search_multi_provider",
                           [max_results_per_provider |-> search_request.max_results], searched)>>
        IN  IF searched.raised THEN Result(HTTPException(500, "Search failed"), made)
            ELSE
                LET collected == CollectResults(searched.value, 1, search_request.max_results,
                                    [search_results |-> <<>>, total_results |-> 0])
                    provider_used == IF search_request.provider # None
                                     THEN search_request.provider ELSE "azure"
                IN  Result(Return([query |-> search_request.query,
                                   results |-> collected.search_results,
                                   total_results |-> collected.total_results,
                                   provider |-> provider_used]), made)

SearchDocuments ==
    /\ Idle
    /\ Len(response_time_history) < MaxTracked
    /\ \E search_request \in SearchQueries,
          searched \in {Raised} \cup {Ok(r) : r \in ProviderResults},
          d \in Durations :
        ServeTracked([endpoint |-> "search_documents", body |-> search_request],
                     search_documents(search_request, searched), d)

\* main.py:423-439.  The manager call is outside any try block.
get_search_providers(provided) ==
    IF search_manager = None
    THEN Result(HTTPException(503, "Search service not available"), <<>>)
    ELSE
        LET made == <<Call("search_manager", "get_available_providers", <<>>, provided)>>
        IN  IF provided.raised THEN Result(UnhandledException, made)
            ELSE Result(Return([list |-> provided.value]), made)

GetSearchProviders ==
    /\ Idle
    /\ Len(response_time_history) < MaxTracked
    /\ \E provided \in {Raised, Ok(<<>>), Ok(<<"azure">>), Ok(<<"azure", "tavily">>)},
          d \in Durations :
        ServeTracked([endpoint |-> "get_search_providers"], get_search_providers(provided), d)

\* main.py:442-464.  Without a search manager the answer is the empty list.
get_document_types(typed) ==
    IF search_manager = None THEN Result(Return([list |-> <<>>]), <<>>)
    ELSE
        LET made == <<Call("search_manager", "get_available_document_types", <<>>, typed)>>
        IN  IF typed.raised THEN Result(UnhandledException, made)
            ELSE Result(Return([list |-> typed.value]), made)

GetDocumentTypes ==
    /\ Idle
    /\ Len(response_time_history) < MaxTracked
    /\ \E typed \in {Raised, Ok(<<>>), Ok(<<"research">>)}, d \in Durations :
        ServeTracked([endpoint |-> "get_document_types"], get_document_types(typed), d)

(***************************************************************************)
(* Memory endpoints (main.py:467-591, models.py:171-192).                  *)
(***************************************************************************)
\* Memory contents, told apart by their length only.
Contents == {"", "c", "c10000", "c10001"}
ContentLen(c) == CASE c = "" -> 0 [] c = "c" -> 1 [] c = "c10000" -> 10000 [] c = "c10001" -> 10001

EntryTypes == {"general", "research", "citation", "agent_communication", "system"}
MemoryTypes == {"session", "persistent", "temporary"}

\* MemoryEntryCreate's field constraints (models.py:173-176); source is a non-empty
\* name in every request of the model.
ValidMemoryEntryCreate(m) ==
    /\ ContentLen(m.content) >= 1
    /\ ContentLen(m.content) <= 10000
    /\ m.entry_type \in EntryTypes
    /\ m.memory_type \in MemoryTypes

MemoryEntryCreates ==
    [content : Contents, entry_type : {"general", "research"}, source : {"system", "agent"},
     memory_type : {"session"}, tags : {<<>>, <<"t">>}]

\* Mutant: a failure of the store call is swallowed and the follow-up search is made.
store_memory_swallow(memory_request, stored, searched) ==
    IF ContentLen(memory_request.content) < 1 \/ ContentLen(memory_request.content) > 10000
    THEN Result(RequestValidationError, <<>>)
    ELSE IF memory_manager = None
    THEN Result(HTTPException(503, "Memory service not available"), <<>>)
    ELSE
        LET call1 == Call("memory_manager", "store_memory",
                          [content |-> memory_request.content], stored)
            call2 == Call("memory_manager", "search_memory",
                          [query |-> memory_request.content, max_results |-> 1], searched)
        IN  IF ~stored.raised /\ ~searched.raised /\ searched.value # <<>>
            THEN Result(Return([id |-> stored.value,
                                content |-> memory_request.content,
                                entry_type |-> memory_request.entry_type,
                                source |-> memory_request.source,
                                memory_type |-> memory_request.memory_type,
                                tags |-> memory_request.tags]), <<call1, call2>>)
            ELSE Result(HTTPException(500, "Memory storage failed"), <<call1, call2>>)

\* Mutant: a follow-up search that finds nothing is made a second time.
store_memory_retry(memory_request, stored, searched) ==
    IF ~ValidMemoryEntryCreate(memory_request) THEN Result(RequestValidationError, <<>>)
    ELSE IF memory_manager = None
    THEN Result(HTTPException(503, "Memory service not available"), <<>>)
    ELSE
        LET call1 == Call("memory_manager", "store_memory",
                          [content |-> memory_request.content], stored)
            call2 == Call("memory_manager", "search_memory",
                          [query |-> memory_request.content, max_results |-> 1], searched)
        IN  IF stored.raised
            THEN Result(HTTPException(500, "Memory storage failed"), <<call1>>)
            ELSE IF searched.raised
            THEN Result(HTTPException(500, "Memory storage failed"), <<call1, call2>>)
            ELSE IF searched.value # <<>>
            THEN Result(Return([id |-> stored.value,
                                content |-> memory_request.content,
                                entry_type |-> memory_request.entry_type,
                                source |-> memory_request.source,
                                memory_type |-> memory_request.memory_type,
                                tags |-> memory_request.tags]), <<call1, call2>>)
            ELSE Result(HTTPException(500, "Memory storage failed"), <<call1, call2, call2>>)

\* main.py:468-510.  The HTTPException raised when the follow-up search finds
\* nothing is raised inside the try block and is caught by its except clause.
store_memory(memory_request, stored, searched) ==
    IF ~ValidMemoryEntryCreate(memory_request) THEN Result(RequestValidationError, <<>>)
    ELSE IF memory_manager = None
    THEN Result(HTTPException(503, "Memory service not available"), <<>>)
    ELSE
        LET call1 == Call("memory_manager", "store_memory",
                          [content |-> memory_request.content], stored)
            call2 == Call("memory_manager", "search_memory",
                          [query |-> memory_request.content, max_results |-> 1], searched)
        IN  IF stored.raised
            THEN Result(HTTPException(500, "Memory storage failed"), <<call1>>)
            ELSE IF searched.raised
            THEN Result(HTTPException(500, "Memory storage failed"), <<call1, call2>>)
            ELSE IF searched.value # <<>>
            THEN Result(Return([id |-> stored.value,
                                content |-> memory_request.content,
                                entry_type |-> memory_request.entry_type,
                                source |-> memory_request.source,
                                memory_type |-> memory_request.memory_type,
                                tags |-> memory_request.tags]), <<call1, call2>>)
            ELSE Result(HTTPException(500, "Memory storage failed"), <<call1, call2>>)

\* What MemoryManager.search_memory returns: a list of n contents.
MemoryResults(max_n) == {[i \in 1..n |-> i] : n \in 0..max_n}

\* MemoryManager.store_memory: a call that returns has put the entry into the
\* manager's store under the id it returns; a call that raises has stored nothing.
MemoryManager_store_memory(store, stored) ==
    IF stored.raised THEN store ELSE store \cup {stored.value}

StoreMemory ==
    /\ Idle
    /\ \E memory_request \in MemoryEntryCreates :
      \E stored \in IF ValidMemoryEntryCreate(memory_request) /\ memory_manager # None
                    THEN {Raised, Ok(1)} ELSE {Raised} :
      \E searched \in IF ~stored.raised
                      THEN {Raised} \cup {Ok(r) : r \in MemoryResults(1)} ELSE {Raised} :
        LET result == store_memory(memory_request, stored, searched)
        IN  /\ Answer([endpoint |-> "store_memory", body |-> memory_request,
                       stored |-> stored, searched |-> searched], result)
            /\ memory_store' = IF result.calls # <<>>
                               THEN MemoryManager_store_memory(memory_store, stored)
                               ELSE memory_store
            /\ UNCHANGED created_task_ids

\* Python truthiness of an optional string parameter: None and "" are falsy.
Truthy(text) == text # None /\ text # ""

\* Mutant: a full page is taken to have a successor.
search_memory_full_page(query, page, page_size, entry_type, source, memory_type, searched) ==
    IF ~ValidPagination(page, page_size) THEN Result(RequestValidationError, <<>>)
    ELSE IF memory_manager = None
    THEN Result(HTTPException(503, "Memory service not available"), <<>>)
    ELSE
        LET search_params ==
                [query |-> query,
                 max_results |-> page_size * page,
                 entry_types |-> IF Truthy(entry_type) THEN <<entry_type>> ELSE <<>>,
                 sources |-> IF Truthy(source) THEN <<source>> ELSE <<>>]
            made == <<Call("memory_manager", "search_memory", search_params, searched)>>
        IN  IF searched.raised THEN Result(HTTPException(500, "Memory search failed"), made)
            ELSE
                LET results == searched.value
                    memory_entries ==
                        [i \in 1..Len(results) |->
                            [content |-> results[i], entry_type |-> "general",
                             source |-> "system", memory_type |-> "session", tags |-> <<>>]]
                    total == Len(memory_entries)
                    start == (page - 1) * page_size
                    end == Min(start + page_size, total)
                IN  Result(Return([entries |-> Slice(memory_entries, start, end),
                                   total |-> total,
                                   page |-> page,
                                   page_size |-> page_size,
                                   total_pages |-> total_pages(total, page_size),
                                   has_next |-> end = start + page_size,
                                   has_prev |-> start > 0]), made)

\* main.py:513-571.  The memory_type parameter is not used by the handler.
search_memory(query, page, page_size, entry_type, source, memory_type, searched) ==
    IF ~ValidPagination(page, page_size) THEN Result(RequestValidationError, <<>>)
    ELSE IF memory_manager = None
    THEN Result(HTTPException(503, "Memory service not available"), <<>>)
    ELSE
        LET search_params ==
                [query |-> query,
                 max_results |-> page_size * page,
                 entry_types |-> IF Truthy(entry_type) THEN <<entry_type>> ELSE <<>>,
                 sources |-> IF Truthy(source) THEN <<source>> ELSE <<>>]
            made == <<Call("memory_manager", "search_memory", search_params, searched)>>
        IN  IF searched.raised THEN Result(HTTPException(500, "Memory search failed"), made)
            ELSE
                LET results == searched.value
                    memory_entries ==
                        [i \in 1..Len(results) |->
                            [content |-> results[i], entry_type |-> "general",
                             source |-> "system", memory_type |-> "session", tags |-> <<>>]]
                    total == Len(memory_entries)
                    start == (page - 1) * page_size
                    end == Min(start + page_size, total)
                IN  Result(Return([entries |-> Slice(memory_entries, start, end),
                                   total |-> total,
                                   page |-> page,
                                   page_size |-> page_size,
                                   total_pages |-> total_pages(total, page_size),
                                   has_next |-> end < total,
                                   has_prev |-> start > 0]), made)

SearchMemory ==
    /\ Idle
    /\ \E page \in Pages, page_size \in PageSizes,
          entry_type \in {None, "research"}, source \in {None, "agent"},
          memory_type \in {None, "persistent"} :
      \E searched \in IF ValidPagination(page, page_size) /\ memory_manager # None
                      THEN {Raised} \cup {Ok(r) : r \in MemoryResults(MaxMemoryResults)}
                      ELSE {Raised} :
        Serve([endpoint |-> "search_memory", page |-> page, page_size |-> page_size,
               entry_type |-> entry_type, source |-> source, memory_type |-> memory_type,
               searched |-> searched],
              search_memory("q", page, page_size, entry_type, source, memory_type, searched))

\* main.py:574-584.  Without a memory manager the answer is the default statistics.
get_memory_stats(counted) ==
    IF memory_manager = None THEN Result(Return([total_entries |-> 0]), <<>>)
    ELSE
        LET made == <<Call("memory_manager", "get_memory_stats", <<>>, counted)>>
        IN  IF counted.raised THEN Result(HTTPException(500, "Memory stats failed"), made)
            ELSE Result(Return([total_entries |-> counted.value]), made)

GetMemoryStats ==
    /\ Idle
    /\ \E counted \in {Raised, Ok(0), Ok(1)} :
        Serve([endpoint |-> "get_memory_stats"], get_memory_stats(counted))

\* main.py:587-591.  No global is read and no manager is called.
delete_memory(memory_id) ==
    Result(Return([success |-> TRUE,
                   message |-> <<"Memory", memory_id, "deleted successfully">>]), <<>>)

DeleteMemory ==
    /\ Idle
    /\ \E memory_id \in 1..2 :
        Serve([endpoint |-> "delete_memory", memory_id |-> memory_id], delete_memory(memory_id))

(***************************************************************************)
(* Citation endpoints (main.py:594-777, models.py:223-259).                *)
(***************************************************************************)
\* Texts are sequences of characters.
Lower(text) == [i \in 1..Len(text) |-> IF text[i] = "A" THEN "a" ELSE text[i]]

\* Python's `sub in text` for strings.
Contains(sub, text) ==
    \E i \in 0..(Len(text) - Len(sub)) : SubSeq(text, i + 1, i + Len(sub)) = sub

\* Python's text.split(sep), from position i on, cur the piece being read.
RECURSIVE SplitFrom(_, _, _, _)
SplitFrom(text, sep, i, cur) ==
    IF i > Len(text) THEN <<cur>>
    ELSE IF text[i] = sep THEN <<cur>> \o SplitFrom(text, sep, i + 1, <<>>)
    ELSE SplitFrom(text, sep, i + 1, Append(cur, text[i]))

Split(text, sep) == SplitFrom(text, sep, 1, <<>>)

\* An optional text parameter: absent (None) or a text; None and "" are falsy.
NoText == [is_none |-> TRUE, text |-> <<>>]
Text(t) == [is_none |-> FALSE, text |-> t]
TextTruthy(p) == ~p.is_none /\ p.text # <<>>

\* The citation objects the citation manager hands out.
CitationObject(id, source_title, tags) ==
    [id |-> id, content |-> "content", source_title |-> source_title, case_number |-> "case",
     page_number |-> 1, confidence |-> 1, tags |-> tags]

CitationKinds ==
    {[source_title |-> <<"A", "b">>, tags |-> {<<"x">>}],
     [source_title |-> <<"b">>, tags |-> {<<"x">>, <<"y">>}]}

\* What CitationManager.list_citations returns: up to MaxCitations citations.
CitationLists ==
    UNION {{[i \in 1..n |-> CitationObject(i, kinds[i].source_title, kinds[i].tags)] :
                kinds \in [1..n -> CitationKinds]} : n \in 0..MaxCitations}

\* What CitationManager.read_citation returns: None or the citation.
NoCitation == [is_none |-> TRUE]
Found(c) == [is_none |-> FALSE, citation |-> c]

\* The Citation response model built from a citation object and the tags and
\* metadata the handler gives it.
Citation(id, citation, tags, metadata) ==
    [id |-> id, content |-> citation.content, source_title |-> citation.source_title,
     case_number |-> citation.case_number, page_number |-> citation.page_number,
     confidence |-> citation.confidence, tags |-> tags, metadata |-> metadata]

\* CitationCreate's field constraints (models.py:225-230), contents told apart by
\* their length as for the memory entries.
ValidCitationCreate(c) == ContentLen(c.content) >= 1 /\ ContentLen(c.content) <= 5000

CitationCreates ==
    [content : {"", "c"}, tags : {<<>>, <<"x">>}, metadata : {"none", "empty", "meta"}]

\* main.py:595-638.  The HTTPException raised when the created citation cannot be
\* read back is raised inside the try block and is caught by its except clause; so is
\* the ValidationError of Citation(..., metadata=None) for a request without
\* metadata (models.py:230 defaults it to None, models.py:255 takes a dict only).
create_citation(citation_request, created, read) ==
    IF ~ValidCitationCreate(citation_request) THEN Result(RequestValidationError, <<>>)
    ELSE IF citation_manager = None
    THEN Result(HTTPException(503, "Citation service not available"), <<>>)
    ELSE
        LET call1 == Call("citation_manager", "create_citation", <<>>, created)
        IN  IF created.raised
            THEN Result(HTTPException(500, "Citation creation failed"), <<call1>>)
            ELSE
                LET call2 == Call("citation_manager", "read_citation", created.value, read)
                IN  IF read.raised
                    THEN Result(HTTPException(500, "Citation creation failed"), <<call1, call2>>)
                    ELSE IF ~read.value.is_none /\ citation_request.metadata # "none"
                    THEN Result(Return(Citation(created.value, read.value.citation,
                                                citation_request.tags,
                                                citation_request.metadata)), <<call1, call2>>)
                    ELSE Result(HTTPException(500, "Citation creation failed"), <<call1, call2>>)

ReadAnswers ==
    {Raised, Ok(NoCitation), Ok(Found(CitationObject(1, <<"A", "b">>, {<<"x">>})))}

CreateCitation ==
    /\ Idle
    /\ \E citation_request \in CitationCreates, created \in {Raised, Ok(1)}, read \in ReadAnswers :
        Serve([endpoint |-> "create_citation", body |-> citation_request],
              create_citation(citation_request, created, read))

\* main.py:656-665: the citation passes the source-title and tag filters.
PassesFilters(citation, source_title, tag_list) ==
    /\ ~(TextTruthy(source_title)
            /\ ~Contains(Lower(source_title.text), Lower(citation.source_title)))
    /\ ~(tag_list # <<>>
            /\ ~\E i \in 1..Len(tag_list) : tag_list[i] \in citation.tags)

\* main.py:641-701
list_citations(page, page_size, case_number, source_title, tags, listed) ==
    IF ~ValidPagination(page, page_size) THEN Result(RequestValidationError, <<>>)
    ELSE IF citation_manager = None
    THEN Result(HTTPException(503, "Citation service not available"), <<>>)
    ELSE
        LET made == <<Call("citation_manager", "list_citations",
                           [case_number_filter |-> case_number], listed)>>
        IN  IF listed.raised THEN Result(HTTPException(500, "Citation listing failed"), made)
            ELSE
                LET citations == listed.value
                    tag_list == IF TextTruthy(tags) THEN Split(tags.text, ",") ELSE <<>>
                    filtered_citations ==
                        SelectSeq(citations, LAMBDA c : PassesFilters(c, source_title, tag_list))
                    total == Len(filtered_citations)
                    start == (page - 1) * page_size
                    end == Min(start + page_size, total)
                    paginated_citations == Slice(filtered_citations, start, end)
                    citation_data ==
                        [i \in 1..Len(paginated_citations) |->
                            Citation(paginated_citations[i].id, paginated_citations[i],
                                     <<>>, "empty")]
                IN  Result(Return([citations |-> citation_data,
                                   total |-> total,
                                   page |-> page,
                                   page_size |-> page_size,
                                   total_pages |-> total_pages(total, page_size),
                                   has_next |-> end < total,
                                   has_prev |-> start > 0]), made)

TitleFilters == {NoText, Text(<<"a">>), Text(<<"B">>)}
TagFilters == {NoText, Text(<<"z", ",", "y">>)}

\* The manager is asked for its list only by a valid request served while the
\* manager exists; no answer is drawn for any other request.
ListCitations ==
    /\ Idle
    /\ \E page \in Pages, page_size \in PageSizes,
          source_title \in TitleFilters, tags \in TagFilters :
       \E listed \in IF ValidPagination(page, page_size) /\ citation_manager # None
                     THEN {Raised} \cup {Ok(l) : l \in CitationLists}
                     ELSE {Raised} :
        Serve([endpoint |-> "list_citations", page |-> page, page_size |-> page_size,
               source_title |-> source_title, tags |-> tags, listed |-> listed],
              list_citations(page, page_size, NoText, source_title, tags, listed))

\* main.py:704-725.  The manager call is outside any try block.
get_citation(citation_id, read) ==
    IF citation_manager = None
    THEN Result(HTTPException(503, "Citation service not available"), <<>>)
    ELSE
        LET made == <<Call("citation_manager", "read_citation", citation_id, read)>>
        IN  IF read.raised THEN Result(UnhandledException, made)
            ELSE IF read.value.is_none
            THEN Result(HTTPException(404, "Citation not found"), made)
            ELSE Result(Return(Citation(citation_id, read.value.citation, <<>>, "empty")), made)

GetCitation ==
    /\ Idle
    /\ \E citation_id \in 1..2, read \in ReadAnswers :
        Serve([endpoint |-> "get_citation", citation_id |-> citation_id, read |-> read],
              get_citation(citation_id, read))

\* main.py:728-760.  The HTTPException(404) is raised inside the try block, whose
\* except clause catches every Exception and raises HTTPException(500).
update_citation(citation_id, citation_update, updated, read) ==
    IF ~ValidCitationCreate(citation_update) THEN Result(RequestValidationError, <<>>)
    ELSE IF citation_manager = None
    THEN Result(HTTPException(503, "Citation service not available"), <<>>)
    ELSE
        LET call1 == Call("citation_manager", "update_citation", citation_id, updated)
            call2 == Call("citation_manager", "read_citation", citation_id, read)
        IN  IF updated.raised
            THEN Result(HTTPException(500, "Citation update failed"), <<call1>>)
            ELSE IF ~updated.value
            THEN Result(HTTPException(500, "Citation update failed"), <<call1>>)
            ELSE IF read.raised
            THEN Result(HTTPException(500, "Citation update failed"), <<call1, call2>>)
            ELSE IF ~read.value.is_none
            THEN Result(Return(Citation(citation_id, read.value.citation, <<>>, "empty")),
                        <<call1, call2>>)
            ELSE Result(HTTPException(500, "Citation update failed"), <<call1, call2>>)

UpdateCitation ==
    /\ Idle
    /\ \E citation_id \in 1..2, citation_update \in CitationCreates,
          updated \in {Raised, Ok(TRUE), Ok(FALSE)}, read \in ReadAnswers :
        Serve([endpoint |-> "update_citation", citation_id |-> citation_id,
               body |-> citation_update, updated |-> updated],
              update_citation(citation_id, citation_update, updated, read))

\* Mutant: the check for a missing citation manager is left out, so that the call on
\* None raises inside the try block.
delete_citation_unguarded(citation_id, deleted) ==
    LET made == <<Call("citation_manager", "delete_citation", citation_id, deleted)>>
    IN  IF citation_manager = None \/ deleted.raised \/ ~deleted.value
        THEN Result(HTTPException(500, "Citation deletion failed"), made)
        ELSE Result(Return([success |-> TRUE,
                            message |-> <<"Citation", citation_id, "deleted successfully">>]),
                    made)

\* main.py:763-777.  As in update_citation, the HTTPException(404) is caught by the
\* handler's own except clause.
delete_citation(citation_id, deleted) ==
    IF citation_manager = None
    THEN Result(HTTPException(503, "Citation service not available"), <<>>)
    ELSE
        LET made == <<Call("citation_manager", "delete_citation", citation_id, deleted)>>
        IN  IF deleted.raised THEN Result(HTTPException(500, "Citation deletion failed"), made)
            ELSE IF ~deleted.value
            THEN Result(HTTPException(500, "Citation deletion failed"), made)
            ELSE Result(Return([success |-> TRUE,
                                message |-> <<"Citation", citation_id, "deleted successfully">>]),
                        made)

DeleteCitation ==
    /\ Idle
    /\ \E citation_id \in 1..2, deleted \in {Raised, Ok(TRUE), Ok(FALSE)} :
        Serve([endpoint |-> "delete_citation", citation_id |-> citation_id,
               deleted |-> deleted],
              delete_citation(citation_id, deleted))

(***************************************************************************)
(* Health, configuration and research-task endpoints.                      *)
(***************************************************************************)
\* Mutant: a service counts as up when its global is truthy.
health_check_truthy(azure_openai, azure_search) ==
    Result(Return([success |-> TRUE,
                   services |-> [search |-> search_manager # None,
                                 memory |-> memory_manager # None,
                                 citations |-> citation_manager # None,
                                 agents |-> ~AgentsFalsy,
                                 azure_openai |-> azure_openai,
                                 azure_search |-> azure_search],
                   version |-> "2.0.0"]), <<>>)

\* main.py:193-216.  azure_openai and azure_search tell whether the configuration
\* get_config() returns names the endpoints.
health_check(azure_openai, azure_search) ==
    Result(Return([success |-> TRUE,
                   services |-> [search |-> search_manager # None,
                                 memory |-> memory_manager # None,
                                 citations |-> citation_manager # None,
                                 agents |-> ~agents.is_none,
                                 azure_openai |-> azure_openai,
                                 azure_search |-> azure_search],
                   version |-> "2.0.0"]), <<>>)

HealthCheck ==
    /\ Idle
    /\ \E azure_openai \in BOOLEAN, azure_search \in BOOLEAN :
        Serve([endpoint |-> "health_check"], health_check(azure_openai, azure_search))

\* main.py:781-820
get_config_info(configured) ==
    IF configured.raised THEN Result(HTTPException(500, "Config fetch failed"), <<>>)
    ELSE Result(Return([document_types |-> configured.value,
                        search_providers |-> <<"azure", "tavily">>]), <<>>)

GetConfigInfo ==
    /\ Idle
    /\ \E configured \in {Raised, Ok(<<>>), Ok(<<"research">>)} :
        Serve([endpoint |-> "get_config_info"], get_config_info(configured))

\* The optional agents list of a research-task request: absent (None) or a list.
NoList == [is_none |-> TRUE, list |-> <<>>]
List(l) == [is_none |-> FALSE, list |-> l]

Temperatures == {"conservative", "balanced", "creative"}

\* ResearchTaskCreate's field constraints (models.py:302-305).
ValidResearchTaskCreate(t) ==
    /\ QueryLen(t.query) >= 1
    /\ QueryLen(t.query) <= 1000
    /\ t.temperature \in Temperatures
    /\ t.max_iterations >= 1
    /\ t.max_iterations <= 10

ResearchTaskCreates ==
    [query : {"", "q"},
     agents : {NoList, List(<<>>), List(<<1>>), List(<<2, 1>>), List(<<MaxAgents + 1>>)},
     temperature : {"balanced", "creative"},
     max_iterations : {0, 3, 5, 11}]

\* main.py:838.  Python reads
\*     task_request.agents or list(agents.keys()) if agents else []
\* as  (task_request.agents or list(agents.keys())) if agents else [].
task_agents(requested) ==
    IF ~AgentsFalsy
    THEN IF ~requested.is_none /\ requested.list # <<>> THEN requested.list ELSE agents.keys
    ELSE <<>>

\* main.py:824-846.  task_id is the uuid4 drawn for the task.
create_research_task(task_request, task_id) ==
    IF ~ValidResearchTaskCreate(task_request) THEN Result(RequestValidationError, <<>>)
    ELSE Result(Return([id |-> task_id,
                        query |-> task_request.query,
                        agents |-> task_agents(task_request.agents),
                        temperature |-> task_request.temperature,
                        status |-> "created",
                        progress |-> 0]), <<>>)

\* Of the two task ids get_research_task is asked for, 2 is the one handed out here
\* and 1 is never handed out.
CreateResearchTask ==
    /\ Idle
    /\ \E task_request \in ResearchTaskCreates, task_id \in {2} :
        LET result == create_research_task(task_request, task_id)
        IN  /\ Answer([endpoint |-> "create_research_task", body |-> task_request], result)
            /\ created_task_ids' = IF result.outcome.kind = "return"
                                   THEN created_task_ids \cup {task_id}
                                   ELSE created_task_ids
            /\ UNCHANGED memory_store

\* main.py:849-857.  The fields not given take PaginatedResponse's defaults
\* (models.py:72-74).
list_research_tasks(page, page_size, status) ==
    IF ~ValidPagination(page, page_size) THEN Result(RequestValidationError, <<>>)
    ELSE Result(Return([tasks |-> <<>>, total |-> 0, page |-> page, page_size |-> page_size,
                        total_pages |-> 0, has_next |-> FALSE, has_prev |-> FALSE]), <<>>)

ListResearchTasks ==
    /\ Idle
    /\ \E page \in Pages, page_size \in PageSizes :
        Serve([endpoint |-> "list_research_tasks", page |-> page, page_size |-> page_size],
              list_research_tasks(page, page_size, None))

\* Mutant: a task that was created is found.
get_research_task_lookup(task_id) ==
    IF task_id \in created_task_ids
    THEN Result(Return([id |-> task_id, status |-> "created", progress |-> 0]), <<>>)
    ELSE Result(HTTPException(501, "Research task management not yet implemented"), <<>>)

\* main.py:860-863
get_research_task(task_id) ==
    Result(HTTPException(501, "Research task management not yet implemented"), <<>>)

GetResearchTask ==
    /\ Idle
    /\ \E task_id \in 1..2 :
        Serve([endpoint |-> "get_research_task", task_id |-> task_id],
              get_research_task(task_id))

(***************************************************************************)
(* A path no route matches: the router raises HTTPException(404).          *)
(***************************************************************************)
no_route == Result(HTTPException(404, "Not Found"), <<>>)

NoRoute ==
    /\ Idle
    /\ Serve([endpoint |-> "no_route"], no_route)

(***************************************************************************)
(* A WebSocket handshake.  main.py registers its routes with @app.get,     *)
(* @app.post, @app.put and @app.delete only: no route is a WebSocket       *)
(* route, no connection list is kept and nothing is broadcast.             *)
(***************************************************************************)
websocket_routes == {}

websocket_connect(path) ==
    Result(IF path \in websocket_routes THEN WebSocketAccept ELSE WebSocketClose, <<>>)

WebSocketConnect ==
    /\ Idle
    /\ \E path \in {"/ws", "/api/v1/ws"} :
        Serve([endpoint |-> "websocket_connect", path |-> path], websocket_connect(path))

\* The response has been sent; the next request can be served.
ResponseSent ==
    /\ ~Idle
    /\ request' = [endpoint |-> "none"]
    /\ response' = NoResponse
    /\ calls' = <<>>
    /\ UNCHANGED <<response_time_history, completed_durations, memory_store, created_task_ids>>
    /\ UNCHANGED untouched

Next ==
    \/ startup_event
    \/ ListAgents
    \/ GetAgentStats
    \/ GetAgent
    \/ SearchDocuments
    \/ GetSearchProviders
    \/ GetDocumentTypes
    \/ StoreMemory
    \/ SearchMemory
    \/ GetMemoryStats
    \/ DeleteMemory
    \/ CreateCitation
    \/ ListCitations
    \/ GetCitation
    \/ UpdateCitation
    \/ DeleteCitation
    \/ HealthCheck
    \/ GetConfigInfo
    \/ CreateResearchTask
    \/ ListResearchTasks
    \/ GetResearchTask
    \/ NoRoute
    \/ WebSocketConnect
    \/ ResponseSent

Spec == Init /\ [][Next]_vars

(***************************************************************************)
(* Tracked calls running concurrently (main.py:123-143).  The wrapper      *)
(* notes the start time and awaits func; other requests run meanwhile.     *)
(* Once func has returned or raised, the wrapper runs to its end without   *)
(* awaiting anything: recording the duration is one step.                  *)
(***************************************************************************)
\* What a tracked handler ends with: a result, or one of the exceptions the tracked
\* handlers raise (main.py:238, 373, 420 and an exception no handler catches).
HandlerOutcomes ==
    {Return([success |-> TRUE]),
     HTTPException(503, "Agents not initialized"),
     HTTPException(500, "Search failed"),
     UnhandledException}

\* The duration of the call that ends after n others: the first WarmUp calls take
\* 10 and 20 ms in turn, each later one takes either.
ResponseTimes(n) ==
    IF n < WarmUp THEN {IF n % 2 = 0 THEN 10 ELSE 20} ELSE Durations

\* main.py:127-129: the wrapper is called, takes the start time and awaits func.
TrackedCallStarts ==
    /\ in_flight < MaxInFlight
    /\ Len(completed_durations) + in_flight < MaxCompleted
    /\ in_flight' = in_flight + 1
    /\ UNCHANGED <<globals, response_time_history, request, response, calls,
                   completed_durations, memory_store, created_task_ids,
                   created_citations, cli>>

\* main.py:130-143: func has finished; the wrapper records the duration and hands
\* func's result or exception to the application.
TrackedCallEnds ==
    /\ in_flight > 0
    /\ \E func_outcome \in HandlerOutcomes,
          response_time \in ResponseTimes(Len(completed_durations)) :
        LET finished == wrapper(response_time_history, func_outcome, response_time)
        IN  /\ response_time_history' = finished.history
            /\ completed_durations' = Append(completed_durations, response_time)
            /\ request' = [endpoint |-> "tracked_call", outcome |-> func_outcome]
            /\ response' = Respond(finished.outcome)
            /\ calls' = <<>>
    /\ in_flight' = in_flight - 1
    /\ UNCHANGED <<globals, memory_store, created_task_ids, created_citations, cli>>

\* get_agent_stats (main.py:273-326) called while other tracked calls are in
\* flight.  The handler awaits nothing, so the wrapper runs from its start to its end
\* in one step: the handler reads the history, then the wrapper records the duration.
TrackedAgentStats ==
    /\ Len(completed_durations) + in_flight < MaxCompleted
    /\ \E active \in 0..Len(agents.keys), psutil_raises \in BOOLEAN,
          response_time \in ResponseTimes(Len(completed_durations)) :
        ServeTracked([endpoint |-> "get_agent_stats"],
                     get_agent_stats(active, psutil_raises), response_time)

NextHistory ==
    \/ startup_event
    \/ TrackedCallStarts
    \/ TrackedCallEnds
    \/ TrackedAgentStats

SpecHistory == Init /\ [][NextHistory]_vars

(***************************************************************************)
(* The command-line orchestrator (src/main.py).  Each external call is one *)
(* step that returns or raises; external_calls logs the calls made.        *)
(* main() drives the agent: get_config, DeepResearchAgent(), initialize(), *)
(* research(), print, and cleanup() in its finally block.  A direct caller *)
(* calls initialize() and research() in any order and survives their       *)
(* exceptions.                                                             *)
(***************************************************************************)
backend == <<globals, response_time_history, request, response, calls,
             in_flight, completed_durations, memory_store, created_task_ids,
             created_citations>>

ExternalCall(step, raised) == [step |-> step, raised |-> raised]

NotInitialized == "RuntimeError: Agent system not initialized. Call initialize() first."

\* Mutant: the agents are created before the memory plugin is set up.
InitializeStepsAgentsFirst ==
    <<"get_config", "create_azure_openai_text_embedding", "create_agents_with_sk_memory",
      "SKMemoryPlugin", "sk_memory_plugin.initialize", "SharedMemoryPluginSK",
      "store_memory(session)", "MagenticOrchestration", "InProcessRuntime", "runtime.start">>

\* The external calls of DeepResearchAgent.initialize in program order
\* (src/main.py:111, 114, 123, 128, 131, 137, 145, 156, 167, 168).
InitializeSteps ==
    <<"get_config", "create_azure_openai_text_embedding", "SKMemoryPlugin",
      "sk_memory_plugin.initialize", "SharedMemoryPluginSK", "store_memory(session)",
      "create_agents_with_sk_memory", "MagenticOrchestration", "InProcessRuntime",
      "runtime.start">>

\* The attribute a step of initialize assigns when its call returns
\* (src/main.py:123, 131, 156, 167).
Assigned(attribute, constructor, step, raised) ==
    IF step = constructor /\ ~raised THEN constructor ELSE attribute

\* Where control goes when a method raises: main() logs the error, exits with 1 and
\* runs its finally block (src/main.py:302-307); a direct caller goes on.
AfterRaise == IF caller = "main" THEN At("finally", 1) ELSE At("idle", 1)

\* main() validates the configuration and constructs the agent (src/main.py:271-278).
MainGetConfig ==
    /\ caller = "main"
    /\ pc = At("main", 1)
    /\ \E raised \in BOOLEAN :
        /\ external_calls' = Append(external_calls, ExternalCall("main.get_config", raised))
        /\ raised_error' = IF raised THEN "Exception" ELSE None
        /\ pc' = IF raised THEN AfterRaise ELSE At("initialize", 1)
    /\ UNCHANGED <<caller, orchestration, runtime, sk_memory_plugin, shared_memory_plugin,
                   method_calls>>
    /\ UNCHANGED backend

\* A direct caller calls initialize() or research().
CallMethod ==
    /\ caller = "direct"
    /\ pc.at = "idle"
    /\ method_calls < MaxMethodCalls
    /\ \E method \in {"initialize", "research"} :
        pc' = IF method = "initialize" THEN At("initialize", 1) ELSE At("research", 0)
    /\ method_calls' = method_calls + 1
    /\ raised_error' = None
    /\ UNCHANGED <<caller, orchestration, runtime, sk_memory_plugin, shared_memory_plugin,
                   external_calls>>
    /\ UNCHANGED backend

\* One step of DeepResearchAgent.initialize (src/main.py:105-174): the call is made;
\* if it raises, the except clause logs and re-raises.
Initialize ==
    /\ pc.at = "initialize"
    /\ \E raised \in BOOLEAN :
        LET step == InitializeSteps[pc.step]
        IN  /\ external_calls' = Append(external_calls, ExternalCall(step, raised))
            /\ sk_memory_plugin' = Assigned(sk_memory_plugin, "SKMemoryPlugin", step, raised)
            /\ shared_memory_plugin' =
                    Assigned(shared_memory_plugin, "SharedMemoryPluginSK", step, raised)
            /\ orchestration' = Assigned(orchestration, "MagenticOrchestration", step, raised)
            /\ runtime' = Assigned(runtime, "InProcessRuntime", step, raised)
            /\ raised_error' = IF raised THEN "Exception" ELSE None
            /\ pc' = IF raised THEN AfterRaise
                     ELSE IF pc.step < Len(InitializeSteps) THEN At("initialize", pc.step + 1)
                     ELSE IF caller = "main" THEN At("research", 0)
                     ELSE At("idle", 1)
    /\ UNCHANGED <<caller, method_calls>>
    /\ UNCHANGED backend

\* Mutant: only the orchestration is looked at.
initialized_orchestration_only(the_orchestration, the_runtime) == the_orchestration # None

\* src/main.py:184: both attributes are set.
initialized(the_orchestration, the_runtime) ==
    the_orchestration # None /\ the_runtime # None

\* The guard of DeepResearchAgent.research (src/main.py:184-186), before its try block.
ResearchGuard ==
    /\ pc = At("research", 0)
    /\ IF ~initialized(orchestration, runtime)
       THEN /\ raised_error' = NotInitialized
            /\ pc' = AfterRaise
       ELSE /\ raised_error' = None
            /\ pc' = At("research", 1)
    /\ UNCHANGED <<caller, orchestration, runtime, sk_memory_plugin, shared_memory_plugin,
                   external_calls, method_calls>>
    /\ UNCHANGED backend

\* Mutant: the report is stored whether or not it is empty.
ResearchCallAnyReport(step, final_report) ==
    CASE step = 1 -> IF sk_memory_plugin # None THEN "store_memory(query)" ELSE None
      [] step = 2 -> "orchestration.invoke"
      [] step = 3 -> "result_proxy.get"
      [] step = 4 -> "print"
      [] step = 5 -> IF sk_memory_plugin # None THEN "store_memory(report)" ELSE None

\* The call research makes at `step`, or None when the step is skipped
\* (src/main.py:192-233): 1 store the query, 2 invoke the orchestration, 3 get the
\* result, 4 print the report, 5 store the report.
ResearchCall(step, final_report) ==
    CASE step = 1 -> IF sk_memory_plugin # None THEN "store_memory(query)" ELSE None
      [] step = 2 -> "orchestration.invoke"
      [] step = 3 -> "result_proxy.get"
      [] step = 4 -> "print"
      [] step = 5 -> IF sk_memory_plugin # None /\ final_report # ""
                     THEN "store_memory(report)" ELSE None

\* One step of the try block of DeepResearchAgent.research (src/main.py:188-240).
Research ==
    /\ pc.at = "research"
    /\ pc.step >= 1
    /\ \E raised \in BOOLEAN, report \in {"", "report"} :
        LET step == ResearchCall(pc.step, pc.final_report)
            failed == raised /\ step \notin {None, "print"}
            final_report == IF pc.step = 3 THEN report ELSE pc.final_report
        IN  /\ external_calls' = IF step = None THEN external_calls
                                 ELSE Append(external_calls, ExternalCall(step, failed))
            /\ raised_error' = IF failed THEN "Exception" ELSE None
            /\ pc' = IF failed THEN AfterRaise
                     ELSE IF pc.step < 5
                     THEN [at |-> "research", step |-> pc.step + 1,
                           final_report |-> final_report]
                     ELSE IF caller = "main" THEN At("main", 2)
                     ELSE At("idle", 1)
    /\ UNCHANGED <<caller, orchestration, runtime, sk_memory_plugin, shared_memory_plugin,
                   method_calls>>
    /\ UNCHANGED backend

\* main() prints the report research returned (src/main.py:291-297).
MainPrint ==
    /\ pc = At("main", 2)
    /\ external_calls' = Append(external_calls, ExternalCall("main.print", FALSE))
    /\ pc' = At("finally", 0)
    /\ UNCHANGED <<caller, orchestration, runtime, sk_memory_plugin, shared_memory_plugin,
                   raised_error, method_calls>>
    /\ UNCHANGED backend

\* The finally block of main() (src/main.py:305-307) and cleanup (242-254): when the
\* agent was constructed and has a runtime, the runtime is stopped; an exception of
\* the stop is logged and dropped.  pc.step is the exit code.
Cleanup ==
    /\ pc.at = "finally"
    /\ \E raised \in BOOLEAN :
        external_calls' =
            IF ~external_calls[1].raised /\ runtime # None
            THEN Append(external_calls, ExternalCall("runtime.stop_when_idle", raised))
            ELSE external_calls
    /\ pc' = At("exited", pc.step)
    /\ UNCHANGED <<caller, orchestration, runtime, sk_memory_plugin, shared_memory_plugin,
                   raised_error, method_calls>>
    /\ UNCHANGED backend

InitCLI ==
    /\ InitBackend
    /\ InitAgent
    /\ caller \in {"main", "direct"}
    /\ pc = IF caller = "main" THEN At("main", 1) ELSE At("idle", 1)

NextCLI ==
    \/ MainGetConfig
    \/ CallMethod
    \/ Initialize
    \/ ResearchGuard
    \/ Research
    \/ MainPrint
    \/ Cleanup

SpecCLI == InitCLI /\ [][NextCLI]_vars

(***************************************************************************)
(* A citation created and then read back (main.py:595-725).  The first     *)
(* citation create_citation answers with 200 is noted, with the citation   *)
(* object the manager returned for it, so that later answers of            *)
(* get_citation and list_citations can be compared with it.                *)
(***************************************************************************)
CreateFirstCitation ==
    /\ Idle
    /\ created_citations = {}
    /\ \E citation_request \in CitationCreates, created \in {Raised, Ok(1)},
          read \in ReadAnswers :
        LET result == create_citation(citation_request, created, read)
        IN  /\ request' = [endpoint |-> "create_citation", body |-> citation_request]
            /\ response' = Respond(result.outcome)
            /\ calls' = result.calls
            /\ created_citations' =
                    IF result.outcome.kind = "return"
                    THEN {[response |-> result.outcome.body, citation |-> read.value.citation]}
                    ELSE created_citations
    /\ UNCHANGED <<globals, response_time_history, in_flight, completed_durations,
                   memory_store, created_task_ids, cli>>

NextCitations ==
    \/ startup_event
    \/ CreateFirstCitation
    \/ GetCitation
    \/ ListCitations
    \/ ResponseSent

SpecCitations == Init /\ [][NextCitations]_vars

(***************************************************************************)
(* Properties.                                                             *)
(***************************************************************************)
Served(endpoint) == request.endpoint = endpoint

AgentEndpoints == {"list_agents", "get_agent_stats"}
SearchEndpoints == {"search_documents", "get_search_providers", "get_document_types"}
MemoryEndpoints == {"store_memory", "search_memory", "get_memory_stats", "delete_memory"}
CitationEndpoints ==
    {"create_citation", "list_citations", "get_citation", "update_citation", "delete_citation"}

\* The request being answered is one of `endpoints`, the global it depends on is None,
\* and the request passed validation.
DependencyMissing(endpoints) ==
    /\ request.endpoint \in endpoints
    /\ response.status_code # 422
    /\ \/ request.endpoint \in AgentEndpoints /\ agents.is_none
       \/ request.endpoint \in SearchEndpoints /\ search_manager = None
       \/ request.endpoint \in MemoryEndpoints /\ memory_manager = None
       \/ request.endpoint \in CitationEndpoints /\ citation_manager = None

DependentEndpoints == AgentEndpoints \cup SearchEndpoints \cup MemoryEndpoints \cup CitationEndpoints

\* The endpoints that answer without their dependency.
DefaultingEndpoints == {"get_agent_stats", "get_document_types", "get_memory_stats", "delete_memory"}

\* C1 as stated: every endpoint that depends on a manager or on the agent registry
\* answers a well-formed request with 503 while that dependency is None.
C1_AllDependentAnswer503 ==
    DependencyMissing(DependentEndpoints) => response.status_code = 503

\* C1 amended: while its dependency is None, each of list_agents, search_documents,
\* get_search_providers, store_memory, search_memory and the five citation endpoints
\* answers a well-formed request with 503, and each of get_agent_stats,
\* get_document_types, get_memory_stats and delete_memory answers 200.
C1_Answer503OrDefault ==
    /\ DependencyMissing(DependentEndpoints \ DefaultingEndpoints) => response.status_code = 503
    /\ DependencyMissing(DefaultingEndpoints) => response.status_code = 200

C1_Witness ==
    /\ Served("delete_citation")
    /\ citation_manager = None
    /\ search_manager # None
    /\ response.status_code = 503

\* C2: get_agent, get_citation, update_citation and delete_citation answer 404 when
\* the addressed entity does not exist (the initialized citation manager returns None
\* from read_citation, False from update_citation or delete_citation).
C2_MissingEntityAnswers404 ==
    /\ (Served("get_agent") /\ request.agent_id \notin AgentKeys) => response.status_code = 404
    /\ (Served("get_citation") /\ citation_manager # None
            /\ ~request.read.raised /\ request.read.value.is_none)
        => response.status_code = 404
    /\ (Served("update_citation") /\ citation_manager # None /\ response.status_code # 422
            /\ ~request.updated.raised /\ ~request.updated.value)
        => response.status_code = 404
    /\ (Served("delete_citation") /\ citation_manager # None
            /\ ~request.deleted.raised /\ ~request.deleted.value)
        => response.status_code = 404

HasDetail(text) ==
    IF "detail" \in DOMAIN response.body THEN response.body.detail = text ELSE FALSE

\* C3: the 404 answer of get_agent for an unknown agent id, and of get_citation for an
\* unknown citation id, carries a 'detail' field with 'Agent not found' respectively
\* 'Citation not found'.
C3_NotFoundCarriesDetail ==
    /\ (Served("get_agent") /\ request.agent_id \notin AgentKeys)
        => (response.status_code = 404 /\ HasDetail("Agent not found"))
    /\ (Served("get_citation") /\ citation_manager # None
            /\ ~request.read.raised /\ request.read.value.is_none)
        => (response.status_code = 404 /\ HasDetail("Citation not found"))

\* C4: a path that matches no route is answered with 404 and the body
\* {success: false, error: {message: 'Resource not found', code: 'NOT_FOUND'}},
\* whatever the managers' initialization state.
C4_UnknownRouteBody ==
    Served("no_route") =>
        /\ response.status_code = 404
        /\ response.body = [success |-> FALSE,
                            error |-> [message |-> "Resource not found", code |-> "NOT_FOUND"]]

C4_Witness ==
    /\ Served("no_route")
    /\ startup = "complete"
    /\ response.status_code = 404

\* The body of the request violates the schema in one of the ways C5 names.
SchemaViolated(req) ==
    \/ /\ req.endpoint = "search_documents"
       /\ \/ QueryLen(req.body.query) = 0
          \/ QueryLen(req.body.query) > 1000
          \/ req.body.max_results < 1
          \/ req.body.max_results > 100
    \/ /\ req.endpoint = "store_memory"
       /\ ContentLen(req.body.content) = 0

\* C5: a request whose body violates the schema is answered with 422 before the
\* handler body runs: no manager call is made, response_time_history stays as it
\* was, and this is so whether or not the manager is initialized.
C5_InvalidBodyRejected ==
    [][(Idle /\ SchemaViolated(request')) =>
            /\ response'.status_code = 422
            /\ calls' = <<>>
            /\ response_time_history' = response_time_history]_vars

C5_Witness ==
    /\ Served("search_documents")
    /\ request.body.max_results = 101
    /\ search_manager = None
    /\ response_time_history # <<>>
    /\ response.status_code = 422

RaisingEndpoints ==
    {"search_documents", "store_memory", "search_memory", "get_memory_stats",
     "create_citation", "list_citations"}

\* C6: when a manager call raises inside search_documents, store_memory,
\* search_memory, get_memory_stats, create_citation or list_citations, the answer is
\* 500, the raising call is the last manager call of the request, and no manager
\* method is called twice.
C6_RaiseAnswers500Once ==
    request.endpoint \in RaisingEndpoints =>
        /\ \A i \in 1..Len(calls) :
                calls[i].raised => (i = Len(calls) /\ response.status_code = 500)
        /\ \A i, j \in 1..Len(calls) :
                (calls[i].target = calls[j].target /\ calls[i].method = calls[j].method)
                    => i = j

C6_Witness ==
    /\ Served("store_memory")
    /\ Len(calls) = 2
    /\ ~calls[1].raised
    /\ calls[2].raised
    /\ response.status_code = 500

\* The items the request's filters let through, for list_agents and list_citations.
FilteredItems ==
    IF Served("list_agents")
    THEN IF request.status \in {None, "idle"}
         THEN [i \in 1..Len(agents.keys) |-> AgentInfo(agents.keys[i])]
         ELSE <<>>
    ELSE LET tag_list == IF TextTruthy(request.tags) THEN Split(request.tags.text, ",") ELSE <<>>
             passed == SelectSeq(request.listed.value,
                                 LAMBDA c : PassesFilters(c, request.source_title, tag_list))
         IN  [i \in 1..Len(passed) |-> Citation(passed[i].id, passed[i], <<>>, "empty")]

ReturnedItems ==
    IF Served("list_agents") THEN response.body.agents ELSE response.body.citations

\* C7: in a 200 answer of list_agents and list_citations, total is the number of items
\* passing the filters, total_pages is ceil(total / page_size), the items returned are
\* the filtered items at positions (page-1)*page_size .. page*page_size-1 in order
\* (min(page_size, max(0, total - (page-1)*page_size)) of them), and has_next holds
\* exactly when page*page_size < total.
C7_Pagination ==
    (request.endpoint \in {"list_agents", "list_citations"} /\ response.status_code = 200) =>
        LET body == response.body
            page == request.page
            page_size == request.page_size
            total == Len(FilteredItems)
            start == (page - 1) * page_size
            count == Min(page_size, Max(0, total - start))
        IN  /\ page >= 1 /\ page_size >= 1 /\ page_size <= 100
            /\ body.total = total
            /\ body.total_pages * page_size >= total
            /\ body.total_pages >= 0
            /\ body.total_pages > 0 => (body.total_pages - 1) * page_size < total
            /\ Len(ReturnedItems) = count
            /\ \A i \in 1..count : ReturnedItems[i] = FilteredItems[start + i]
            /\ body.has_next = (page * page_size < total)

C7_Witness ==
    /\ Served("list_citations")
    /\ response.status_code = 200
    /\ request.page = 2
    /\ request.page_size = 1
    /\ response.body.total = 2
    /\ Len(response.body.citations) = 1
    /\ ~response.body.has_next

\* C8: with a non-empty agent registry, get_agent_stats reports total_agents equal to
\* the number of registered agents and completed_tasks equal to 0, whatever requests
\* were served before.
C8_StatsCompletedTasksZero ==
    (Served("get_agent_stats") /\ ~AgentsFalsy) =>
        /\ response.status_code = 200
        /\ response.body.total_agents = Len(agents.keys)
        /\ response.body.completed_tasks = 0

\* C9: a successful search_documents answer holds at most max_results results in
\* total, and total_results is the length of the results list.
C9_AtMostMaxResults ==
    (Served("search_documents") /\ response.status_code = 200) =>
        /\ Len(response.body.results) <= request.body.max_results
        /\ response.body.total_results = Len(response.body.results)

\* C10: the task create_research_task returns has the request's agents list when the
\* request gives one, and the ids of all registered agents when it gives none, in
\* every state of the agent registry (None, empty, populated).
C10_TaskAgents ==
    (Served("create_research_task") /\ response.status_code = 200) =>
        LET requested == request.body.agents
        IN  /\ (~requested.is_none /\ requested.list # <<>>)
                    => response.body.agents = requested.list
            /\ requested.is_none => response.body.agents = agents.keys

\* C11: the answer of create_research_task echoes the request: it has status
\* 'created', progress 0.0, the request's query and temperature, and a
\* max_iterations field equal to the requested max_iterations.
C11_TaskEchoesRequest ==
    (Served("create_research_task") /\ response.status_code = 200) =>
        /\ response.body.status = "created"
        /\ response.body.progress = 0
        /\ response.body.query = request.body.query
        /\ response.body.temperature = request.body.temperature
        /\ IF "max_iterations" \in DOMAIN response.body
           THEN response.body.max_iterations = request.body.max_iterations
           ELSE FALSE

\* C12: research tasks are never persisted: whatever tasks were created before,
\* list_research_tasks answers every valid page and page_size with an empty task
\* list and total 0, and get_research_task answers 501 for every task id, the ids
\* create_research_task handed out included.
C12_TasksNeverPersisted ==
    /\ (Served("list_research_tasks") /\ ValidPagination(request.page, request.page_size)) =>
            /\ response.status_code = 200
            /\ response.body.tasks = <<>>
            /\ response.body.total = 0
    /\ Served("get_research_task") => response.status_code = 501

C12_Witness ==
    /\ Served("get_research_task")
    /\ request.task_id \in created_task_ids
    /\ response.status_code = 501

\* C13: DELETE /api/v1/memory/{memory_id} deletes the entry: whenever it answers with
\* the success message 'Memory <id> deleted successfully', the entry with that id is
\* no longer in the memory store (so that no later search can return it).
C13_DeleteRemovesEntry ==
    (/\ Served("delete_memory")
     /\ response.status_code = 200
     /\ response.body.message = <<"Memory", request.memory_id, "deleted successfully">>)
        => request.memory_id \notin memory_store

\* The filters a search_memory request gives.
GivenFilters ==
    {f \in {"entry_type", "source", "memory_type"} : Truthy(request[f])}

\* C14: when search_memory is given an entry_type, source or memory_type filter, the
\* filter is passed to the memory manager and every entry of the answer has the
\* requested entry_type, source and memory_type.
C14_SearchMemoryFilters ==
    (Served("search_memory") /\ response.status_code = 200) =>
        /\ "entry_type" \in GivenFilters => calls[1].args.entry_types = <<request.entry_type>>
        /\ "source" \in GivenFilters => calls[1].args.sources = <<request.source>>
        /\ "memory_type" \in GivenFilters =>
                IF "memory_types" \in DOMAIN calls[1].args
                THEN calls[1].args.memory_types = <<request.memory_type>>
                ELSE FALSE
        /\ \A i \in 1..Len(response.body.entries) : \A f \in GivenFilters :
                response.body.entries[i][f] = request[f]

\* The steps C15 names, in the order it gives them: the embedding client is created,
\* the memory plugin initialized, the agents created, the orchestration and the
\* runtime set up, the orchestration invoked, the result printed by research.
NamedOrder ==
    <<"create_azure_openai_text_embedding", "sk_memory_plugin.initialize",
      "create_agents_with_sk_memory", "MagenticOrchestration", "InProcessRuntime",
      "runtime.start", "orchestration.invoke", "print">>

NamedSteps == {NamedOrder[i] : i \in 1..Len(NamedOrder)}

NamedCalls == SelectSeq(external_calls, LAMBDA c : c.step \in NamedSteps)

\* C15: run by main(), the orchestrator makes its external calls in a fixed order:
\* embedding client created, memory plugin initialized, agents created, orchestration
\* and runtime set up, orchestration invoked, result printed; and once a call has
\* raised, none of these steps is executed any more.
C15_FixedOrder ==
    caller = "main" =>
        /\ Len(NamedCalls) <= Len(NamedOrder)
        /\ \A i \in 1..Len(NamedCalls) : NamedCalls[i].step = NamedOrder[i]
        /\ \A i, j \in 1..Len(external_calls) :
                (i < j /\ external_calls[i].raised) => external_calls[j].step \notin NamedSteps

C15_Witness ==
    /\ caller = "main"
    /\ pc = At("exited", 0)
    /\ Len(NamedCalls) = Len(NamedOrder)
    /\ external_calls[Len(external_calls)].step = "runtime.stop_when_idle"

\* C16: research called while orchestration or runtime is unset raises
\* RuntimeError('Agent system not initialized. Call initialize() first.') and makes
\* no external call: nothing is stored in memory and the orchestration is not invoked.
C16_ResearchBeforeInitialize ==
    [][(pc = At("research", 0) /\ (orchestration = None \/ runtime = None)) =>
            /\ raised_error' = NotInitialized
            /\ pc'.at # "research"
            /\ external_calls' = external_calls]_vars

C16_Witness ==
    /\ caller = "direct"
    /\ raised_error = NotInitialized
    /\ sk_memory_plugin # None
    /\ orchestration # None
    /\ runtime = None

\* C17: the backend has a WebSocket manager that keeps a list of open connections
\* and broadcasts to them (a connection whose send fails being dropped, the others
\* staying registered): a client that opens a WebSocket is accepted by the backend.
C17_WebSocketAccepted ==
    Served("websocket_connect") => response.status_code = 101

C19_HistoryBounded ==
    Len(response_time_history) <= MAX_HISTORY_SIZE

C19_Witness ==
    /\ Len(response_time_history) = MAX_HISTORY_SIZE
    /\ Len(completed_durations) > MAX_HISTORY_SIZE
    /\ in_flight = MaxInFlight

\* The last n elements of s.
LastN(s, n) == SubSeq(s, Len(s) - n + 1, Len(s))

\* C20: every tracked call appends exactly one duration when it completes, whether
\* its handler returns or raises, and hands on the handler's own result or exception;
\* so after n completed tracked calls the history is the last min(n, 100) durations
\* in completion order.
C20_HistoryIsLastDurations ==
    /\ response_time_history =
            LastN(completed_durations, Min(Len(completed_durations), MAX_HISTORY_SIZE))
    /\ Served("tracked_call") => response = Respond(request.outcome)

C20_Witness ==
    /\ Len(completed_durations) = MAX_HISTORY_SIZE + 2
    /\ Served("tracked_call")
    /\ request.outcome.kind = "HTTPException"
    /\ response.status_code = 503
    /\ response_time_history[MAX_HISTORY_SIZE] = 20
    /\ response_time_history[MAX_HISTORY_SIZE - 1] = 10
    /\ response_time_history[1] = 10

\* The durations get_agent_stats found in the history when it was called: those of
\* the calls completed before it, the last MAX_HISTORY_SIZE of them at most.
HistoryBeforeCall ==
    LET before == SubSeq(completed_durations, 1, Len(completed_durations) - 1)
    IN  LastN(before, Min(Len(before), MAX_HISTORY_SIZE))

\* get_agent_stats has answered from the history (the registry was not empty).
StatsFromHistory ==
    /\ Served("get_agent_stats")
    /\ ~AgentsFalsy
    /\ response.status_code = 200

\* |a|
Abs(a) == IF a < 0 THEN -a ELSE a

\* C21: get_average_response_time returns the fallback 250.0 when the history is
\* empty, and otherwise the arithmetic mean of the last min(20, len(history)) entries
\* rounded to two decimals (a tie to the even hundredth); entries older than the
\* last 20 do not influence the result.
C21_AverageOfLastTwenty ==
    StatsFromHistory =>
        LET history == HistoryBeforeCall
            recent == LastN(history, Min(20, Len(history)))
            average == response.body.average_response_time
            error == Abs(average * Len(recent) - 100 * SumSeq(recent))
        IN  /\ history = <<>> => average = 25000
            /\ history # <<>> =>
                /\ 2 * error <= Len(recent)
                /\ 2 * error = Len(recent) => average % 2 = 0

\* The history held more than 20 entries, the older ones on average shorter than the
\* last 20, and the answer is the mean of the last 20.
C21_Witness ==
    /\ StatsFromHistory
    /\ Len(HistoryBeforeCall) = MAX_HISTORY_SIZE
    /\ SumSeq(LastN(HistoryBeforeCall, 20)) = 310
    /\ SumSeq(HistoryBeforeCall) = 1510
    /\ response.body.average_response_time = 1550

\* C21 as stated: the answer is the arithmetic mean itself.
C21_ExactMean ==
    StatsFromHistory /\ HistoryBeforeCall # <<>> =>
        LET recent == LastN(HistoryBeforeCall, Min(20, Len(HistoryBeforeCall)))
        IN  response.body.average_response_time * Len(recent) = 100 * SumSeq(recent)

\* The handlers decorated with @track_response_time (main.py:221, 274, 348, 424, 443).
TrackedEndpoints ==
    {"list_agents", "get_agent_stats", "search_documents", "get_search_providers",
     "get_document_types"}

\* C22: only list_agents, get_agent_stats, search_documents, get_search_providers
\* and get_document_types modify response_time_history; a step that serves any other
\* endpoint, with a result or with an error, leaves it unchanged.
C22_OnlyTrackedModifyHistory ==
    [][response_time_history' # response_time_history
            => request'.endpoint \in TrackedEndpoints]_vars

\* An endpoint without the decorator has answered with an error after a tracked
\* request was recorded, and the history still holds that one entry.
C22_Witness ==
    /\ Served("store_memory")
    /\ response.status_code = 500
    /\ Len(response_time_history) = 1
    /\ completed_durations = response_time_history

\* search_memory has answered 200: the manager was asked and returned a list.
MemorySearched ==
    /\ Served("search_memory")
    /\ response.status_code = 200

\* C23: search_memory asks the memory manager for max_results = page * page_size and
\* takes total = number of entries returned; when the manager returns at most
\* max_results entries, has_next is false and total_pages <= page.
C23_SearchMemoryLastPage ==
    MemorySearched =>
        /\ Len(calls) = 1
        /\ calls[1].method = "search_memory"
        /\ calls[1].args.max_results = request.page * request.page_size
        /\ response.body.total = Len(request.searched.value)
        /\ Len(request.searched.value) <= calls[1].args.max_results =>
                /\ ~response.body.has_next
                /\ response.body.total_pages <= request.page

\* Page 2 of size 1 was asked for and the manager returned the two entries it was
\* asked for: the page is full, it is the last one, and no next page is announced.
C23_Witness ==
    /\ MemorySearched
    /\ request.page = 2
    /\ request.page_size = 1
    /\ Len(request.searched.value) = 2
    /\ Len(response.body.entries) = 1
    /\ response.body.total_pages = 2
    /\ ~response.body.has_next
    /\ response.body.has_prev

\* The routes that answer with a PaginatedResponse (models.py:67-74).
PaginatedEndpoints ==
    {"list_agents", "search_memory", "list_citations", "list_research_tasks"}

\* C24: in every response of list_agents, search_memory, list_citations and
\* list_research_tasks, for every page >= 1, pages beyond the last one included,
\* has_prev is true exactly when page > 1 and has_next is true exactly when
\* page < total_pages.
C24_PrevNextFlags ==
    (request.endpoint \in PaginatedEndpoints /\ response.status_code = 200) =>
        /\ response.body.has_prev <=> request.page > 1
        /\ response.body.has_next <=> request.page < response.body.total_pages

\* store_memory has passed validation and found a memory manager: its try block ran.
MemoryStoreTried ==
    /\ Served("store_memory")
    /\ response.status_code \notin {422, 503}

\* The methods of the manager calls made for the request, in order.
CalledMethods == [i \in 1..Len(calls) |-> calls[i].method]

\* C25: store_memory calls memory_manager.store_memory exactly once and, when that
\* call has returned, memory_manager.search_memory exactly once after it (not at all
\* when the store call raised); it answers 200 with the id the store call returned
\* and the request's content, entry_type, source, memory_type and tags exactly when
\* the store call succeeded and the search returned a non-empty result, and 500
\* otherwise; after a 500 that follows a successful store call the entry is still
\* stored.
C25_StoreThenSearchOnce ==
    MemoryStoreTried =>
        LET stored == request.stored
            searched == request.searched
            found == ~stored.raised /\ ~searched.raised /\ searched.value # <<>>
        IN  /\ CalledMethods = IF stored.raised THEN <<"store_memory">>
                               ELSE <<"store_memory", "search_memory">>
            /\ response.status_code = IF found THEN 200 ELSE 500
            /\ found =>
                /\ response.body.id = stored.value
                /\ \A f \in {"content", "entry_type", "source", "memory_type", "tags"} :
                        response.body[f] = request.body[f]
            /\ ~stored.raised => stored.value \in memory_store

\* The store call returned id 1, the follow-up search found nothing: the answer is
\* 500 after one call of each method, and entry 1 is in the store.
C25_Witness ==
    /\ MemoryStoreTried
    /\ ~request.stored.raised
    /\ ~request.searched.raised
    /\ request.searched.value = <<>>
    /\ response.status_code = 500
    /\ CalledMethods = <<"store_memory", "search_memory">>
    /\ 1 \in memory_store

\* C25 as stated: both calls are made, once each and in that order, for every
\* request that reaches the manager.
C25_BothCallsOnce ==
    MemoryStoreTried => CalledMethods = <<"store_memory", "search_memory">>

\* The fields of a Citation answer that C26 compares.
CitationFields ==
    {"content", "source_title", "case_number", "page_number", "confidence", "tags",
     "metadata"}

\* C26: after create_citation has succeeded for a request with tags T and metadata M
\* and returned id c, get_citation(c) and the list_citations entry for c return the
\* same content, source_title, case_number, page_number, confidence, tags and
\* metadata as the create response, the citation manager returning for c the
\* citation object it returned when the citation was created.
C26_CitationRoundTrip ==
    \A created \in created_citations :
        /\ (/\ Served("get_citation")
            /\ response.status_code = 200
            /\ request.citation_id = created.response.id
            /\ request.read.value.citation = created.citation)
                => \A f \in CitationFields : response.body[f] = created.response[f]
        /\ (/\ Served("list_citations")
            /\ response.status_code = 200
            /\ \E j \in 1..Len(request.listed.value) :
                    request.listed.value[j] = created.citation)
                => \A i \in 1..Len(response.body.citations) :
                        response.body.citations[i].id = created.response.id
                            => \A f \in CitationFields :
                                    response.body.citations[i][f] = created.response[f]

\* The last external call made, when there is one.
LastCallIs(step, raised) ==
    /\ external_calls # <<>>
    /\ external_calls[Len(external_calls)] = ExternalCall(step, raised)

\* The step makes the external call `step`.
Makes(step) ==
    /\ Len(external_calls') = Len(external_calls) + 1
    /\ external_calls'[Len(external_calls')].step = step

\* The calls of the orchestration: invoking it and getting its result.
OrchestrationSteps == {"orchestration.invoke", "result_proxy.get"}

\* C27: in DeepResearchAgent.research with the memory plugin set, the query is
\* stored in memory before the orchestration is invoked, and the final report is
\* stored only after the orchestration has returned a non-empty report; if the
\* orchestration or the result retrieval raises, the exception propagates to the
\* caller, no report is stored (the next external call belongs to cleanup or to
\* another method call), and no call removes the stored query entry.
C27_ResearchMemoryOrder ==
    [][/\ (Makes("orchestration.invoke") /\ sk_memory_plugin # None)
            => LastCallIs("store_memory(query)", FALSE)
       /\ Makes("store_memory(report)") =>
            /\ pc.final_report # ""
            /\ LastCallIs("print", FALSE)
            /\ external_calls[Len(external_calls) - 1] = ExternalCall("result_proxy.get", FALSE)
            /\ external_calls[Len(external_calls) - 2] = ExternalCall("orchestration.invoke", FALSE)
       /\ \A step \in OrchestrationSteps :
            /\ (Makes(step) /\ external_calls'[Len(external_calls')].raised) =>
                    /\ raised_error' = "Exception"
                    /\ pc' = AfterRaise
            /\ (LastCallIs(step, TRUE) /\ external_calls' # external_calls) =>
                    \/ Makes("runtime.stop_when_idle")
                    \/ Makes("store_memory(query)")
                    \/ Makes(InitializeSteps[1])]_vars

\* A direct caller's research stored the query, invoked the orchestration and failed
\* to get the result: the exception reached the caller and nothing was stored after
\* the query.
C27_Witness ==
    /\ caller = "direct"
    /\ LastCallIs("result_proxy.get", TRUE)
    /\ external_calls[Len(external_calls) - 2] = ExternalCall("store_memory(query)", FALSE)
    /\ raised_error = "Exception"
    /\ pc = At("idle", 1)
    /\ sk_memory_plugin # None

\* What GET /health reports for `service` in the current state.
HealthReports(service) ==
    health_check(TRUE, TRUE).outcome.body.services[service]

\* The endpoints that depend on `service`.
EndpointsOf(service) ==
    CASE service = "agents" -> AgentEndpoints \cup {"get_agent"}
      [] service = "search" -> SearchEndpoints
      [] service = "memory" -> MemoryEndpoints
      [] service = "citations" -> CitationEndpoints

\* C28: health and endpoint availability agree: when startup_event has completed
\* without raising, search_manager, memory_manager, citation_manager, memory_plugin
\* and agents are all non-None; and in every state in which /health reports agents
\* (search, memory, citations) as true, no endpoint depending on that service answers
\* 503.
C28_HealthAgreesWithEndpoints ==
    /\ startup = "complete" =>
            /\ search_manager # None
            /\ memory_manager # None
            /\ citation_manager # None
            /\ memory_plugin # None
            /\ ~agents.is_none
    /\ \A service \in {"agents", "search", "memory", "citations"} :
            (request.endpoint \in EndpointsOf(service) /\ HealthReports(service))
                => response.status_code # 503
====
